---- MODULE Spec2Model ----
(***************************************************************************)
(* Parliament Bill Auditor (src/app.py): the document validator, the       *)
(* section extractor, the PDF export and the Streamlit script run over     *)
(* st.session_state.                                                       *)
(*                                                                         *)
(* A Python str is modelled as a sequence of one-character strings, so     *)
(* that lower(), strip(), find(), slicing, split() and the regular         *)
(* expressions are computed character by character as the code does.       *)
(* The characters are those of code points 0 to 255; on them lower(),      *)
(* strip(), \s, \d and re.IGNORECASE are as Python defines them.           *)
(***************************************************************************)
EXTENDS Integers, Sequences, FiniteSets, TLC

\* Python's None and a value that is not None: <<>> and <<v>>
None == <<>>
Some(v) == <<v>>

\* ------------------------------------------------------------- characters

\* str.lower() on the characters it changes: A to Z and the capital letters of
\* code points 192 to 222
UpperToLower ==
  ("A" :> "a") @@ ("B" :> "b") @@ ("C" :> "c") @@ ("D" :> "d") @@ ("E" :> "e") @@
  ("F" :> "f") @@ ("G" :> "g") @@ ("H" :> "h") @@ ("I" :> "i") @@ ("J" :> "j") @@
  ("K" :> "k") @@ ("L" :> "l") @@ ("M" :> "m") @@ ("N" :> "n") @@ ("O" :> "o") @@
  ("P" :> "p") @@ ("Q" :> "q") @@ ("R" :> "r") @@ ("S" :> "s") @@ ("T" :> "t") @@
  ("U" :> "u") @@ ("V" :> "v") @@ ("W" :> "w") @@ ("X" :> "x") @@ ("Y" :> "y") @@
  ("Z" :> "z") @@
  ("À" :> "à") @@ ("Á" :> "á") @@ ("Â" :> "â") @@ ("Ã" :> "ã") @@ ("Ä" :> "ä") @@
  ("Å" :> "å") @@ ("Æ" :> "æ") @@ ("Ç" :> "ç") @@ ("È" :> "è") @@ ("É" :> "é") @@
  ("Ê" :> "ê") @@ ("Ë" :> "ë") @@ ("Ì" :> "ì") @@ ("Í" :> "í") @@ ("Î" :> "î") @@
  ("Ï" :> "ï") @@ ("Ð" :> "ð") @@ ("Ñ" :> "ñ") @@ ("Ò" :> "ò") @@ ("Ó" :> "ó") @@
  ("Ô" :> "ô") @@ ("Õ" :> "õ") @@ ("Ö" :> "ö") @@ ("Ø" :> "ø") @@ ("Ù" :> "ù") @@
  ("Ú" :> "ú") @@ ("Û" :> "û") @@ ("Ü" :> "ü") @@ ("Ý" :> "ý") @@ ("Þ" :> "þ")

\* str.lower(), one character
LowerChar(c) == IF c \in DOMAIN UpperToLower THEN UpperToLower[c] ELSE c

\* str.lower()
Lower(s) == SubSeq([i \in 1..Len(s) |-> LowerChar(s[i])], 1, Len(s))

\* the characters str.strip() removes and \s matches (str.isspace): space,
\* \n, \t, \r, \f, and the characters of code points 11 (\v), 28, 29, 30, 31,
\* 133 and 160
IsSpace(c) ==
  c \in {" ", "\n", "\t", "\r", "\f", "", "", "", "", "", "", " "}

\* the characters \d matches
IsDigit(c) == c \in {"0", "1", "2", "3", "4", "5", "6", "7", "8", "9"}

\* c * n of Python: the character c, n times
Repeat(c, n) == [i \in 1..n |-> c]

\* s[a:b] of Python for 0 <= a, with 0-based a and b
Slice(s, a, b) ==
  LET hi == IF b > Len(s) THEN Len(s) ELSE b
  IN IF a >= hi THEN <<>> ELSE SubSeq(s, a + 1, hi)

\* str.strip()
Strip(s) ==
  LET ink == {i \in 1..Len(s) : ~IsSpace(s[i])}
  IN IF ink = {} THEN <<>>
     ELSE LET lo == CHOOSE i \in ink : \A j \in 1..(i - 1) : IsSpace(s[j])
              hi == CHOOSE i \in ink : \A j \in (i + 1)..Len(s) : IsSpace(s[j])
          IN SubSeq(s, lo, hi)

\* whether k occurs in s at 1-based position i
OccursAt(k, s, i) ==
  /\ i >= 1
  /\ i + Len(k) - 1 <= Len(s)
  /\ \A j \in 1..Len(k) : s[i + j - 1] = k[j]

\* the Python expression  k in s
Contains(s, k) == \E i \in 1..(Len(s) - Len(k) + 1) : OccursAt(k, s, i)

\* str.find(k, start): the 0-based offset of the first occurrence of k at or
\* after offset start, or -1
Find(s, k, start) ==
  LET from == IF start < 0 THEN 0 ELSE start
      hits == {i \in from..(Len(s) - Len(k)) : OccursAt(k, s, i + 1)}
  IN IF hits = {} THEN -1
     ELSE CHOOSE i \in hits : \A j \in from..(i - 1) : ~OccursAt(k, s, j + 1)

\* ---------------------------------------------------- regular expressions
\* A pattern is a sequence of atoms [op, arg, min]:
\*   lit   arg = the literal characters
\*   rep   arg = a character class, repeated greedily at least min times
\*   opt   arg = a literal character, optional (greedy)
\*   alt   arg = a sequence of literal alternatives, tried in order
\*   set   arg = a set of characters, one of which must match
\*   bol   ^
\* flags = [ic, dotall, multiline] as re.IGNORECASE, re.DOTALL, re.MULTILINE.

Lit(s) == [op |-> "lit", arg |-> s, min |-> 0]
Ws1 == [op |-> "rep", arg |-> "space", min |-> 1]
Ws0 == [op |-> "rep", arg |-> "space", min |-> 0]
Dig1 == [op |-> "rep", arg |-> "digit", min |-> 1]
Nl1 == [op |-> "rep", arg |-> "newline", min |-> 1]
DotStar == [op |-> "rep", arg |-> "dot", min |-> 0]
Opt(c) == [op |-> "opt", arg |-> c, min |-> 0]
Alt(a) == [op |-> "alt", arg |-> a, min |-> 0]
OneOf(cs) == [op |-> "set", arg |-> cs, min |-> 0]
Bol == [op |-> "bol", arg |-> <<>>, min |-> 0]

NoFlags == [ic |-> FALSE, dotall |-> FALSE, multiline |-> FALSE]
IGNORECASE == [ic |-> TRUE, dotall |-> FALSE, multiline |-> FALSE]
IGNORECASE_DOTALL == [ic |-> TRUE, dotall |-> TRUE, multiline |-> FALSE]
MULTILINE == [ic |-> FALSE, dotall |-> FALSE, multiline |-> TRUE]

InClass(cls, c, fl) ==
  CASE cls = "space" -> IsSpace(c)
    [] cls = "digit" -> IsDigit(c)
    [] cls = "newline" -> c = "\n"
    [] cls = "dot" -> fl.dotall \/ c # "\n"

CharEq(a, b, fl) == IF fl.ic THEN LowerChar(a) = LowerChar(b) ELSE a = b

LitAt(k, s, i, fl) ==
  /\ i + Len(k) - 1 <= Len(s)
  /\ \A j \in 1..Len(k) : CharEq(s[i + j - 1], k[j], fl)

\* the length of the longest run of class cls that starts at position i
RunLen(cls, s, i, fl) ==
  LET stop == CHOOSE j \in i..(Len(s) + 1) :
                /\ j = Len(s) + 1 \/ ~InClass(cls, s[j], fl)
                /\ \A q \in i..(j - 1) : InClass(cls, s[q], fl)
  IN stop - i

\* whether atoms k.. of pattern p match s from position i (re.match of the rest)
RECURSIVE Matches(_, _, _, _, _)
Matches(p, k, s, i, fl) ==
  IF k > Len(p) THEN TRUE
  ELSE LET a == p[k] IN
    CASE a.op = "lit" -> LitAt(a.arg, s, i, fl) /\ Matches(p, k + 1, s, i + Len(a.arg), fl)
      [] a.op = "rep" -> \E n \in a.min..RunLen(a.arg, s, i, fl) : Matches(p, k + 1, s, i + n, fl)
      [] a.op = "opt" -> \/ LitAt(<<a.arg>>, s, i, fl) /\ Matches(p, k + 1, s, i + 1, fl)
                         \/ Matches(p, k + 1, s, i, fl)
      [] a.op = "alt" -> \E j \in 1..Len(a.arg) :
                            LitAt(a.arg[j], s, i, fl) /\ Matches(p, k + 1, s, i + Len(a.arg[j]), fl)
      [] a.op = "set" -> i <= Len(s) /\ s[i] \in a.arg /\ Matches(p, k + 1, s, i + 1, fl)
      [] a.op = "bol" -> (i = 1 \/ (fl.multiline /\ s[i - 1] = "\n")) /\ Matches(p, k + 1, s, i, fl)

\* the end (position after the last matched character) of the match the
\* backtracking engine returns: greedy repetitions longest first, alternatives
\* in order. Defined where Matches(p, k, s, i, fl).
RECURSIVE MatchEnd(_, _, _, _, _)
MatchEnd(p, k, s, i, fl) ==
  IF k > Len(p) THEN i
  ELSE LET a == p[k] IN
    CASE a.op = "lit" -> MatchEnd(p, k + 1, s, i + Len(a.arg), fl)
      [] a.op = "rep" ->
           LET m == RunLen(a.arg, s, i, fl)
               n == CHOOSE x \in a.min..m :
                      /\ Matches(p, k + 1, s, i + x, fl)
                      /\ \A y \in (x + 1)..m : ~Matches(p, k + 1, s, i + y, fl)
           IN MatchEnd(p, k + 1, s, i + n, fl)
      [] a.op = "opt" ->
           IF LitAt(<<a.arg>>, s, i, fl) /\ Matches(p, k + 1, s, i + 1, fl)
           THEN MatchEnd(p, k + 1, s, i + 1, fl)
           ELSE MatchEnd(p, k + 1, s, i, fl)
      [] a.op = "alt" ->
           LET j == CHOOSE x \in 1..Len(a.arg) :
                      /\ LitAt(a.arg[x], s, i, fl) /\ Matches(p, k + 1, s, i + Len(a.arg[x]), fl)
                      /\ \A y \in 1..(x - 1) :
                           ~(LitAt(a.arg[y], s, i, fl) /\ Matches(p, k + 1, s, i + Len(a.arg[y]), fl))
           IN MatchEnd(p, k + 1, s, i + Len(a.arg[j]), fl)
      [] a.op = "set" -> MatchEnd(p, k + 1, s, i + 1, fl)
      [] a.op = "bol" -> MatchEnd(p, k + 1, s, i, fl)

\* re.search(p, s, flags) is not None
re_search(p, s, fl) == \E i \in 1..(Len(s) + 1) : Matches(p, 1, s, i, fl)

\* re.sub(p, repl, s, flags) for a pattern that matches no empty string: the
\* leftmost non-overlapping matches, scanned from position i, replaced by repl
RECURSIVE re_sub_from(_, _, _, _, _)
re_sub_from(p, repl, s, i, fl) ==
  LET starts == {j \in i..Len(s) : Matches(p, 1, s, j, fl)}
  IN IF starts = {} THEN SubSeq(s, i, Len(s))
     ELSE LET j == CHOOSE x \in starts : \A y \in starts : x <= y
              e == MatchEnd(p, 1, s, j, fl)
          IN SubSeq(s, i, j - 1) \o repl \o re_sub_from(p, repl, s, e, fl)

re_sub(p, repl, s, fl) == re_sub_from(p, repl, s, 1, fl)

\* ------------------------------------------------------------- validator

BILL_KEYWORDS == <<
  <<"b","i","l","l">>, <<"a","c","t">>, <<"p","a","r","l","i","a","m","e","n","t">>, <<"l","o","k"," ","s","a","b","h","a">>, <<"r","a","j","y","a"," ","s","a","b","h","a">>, <<"g","a","z","e","t","t","e">>,
  <<"l","e","g","i","s","l","a","t","i","v","e">>, <<"e","n","a","c","t","e","d">>, <<"m","i","n","i","s","t","e","r">>, <<"m","i","n","i","s","t","r","y">>, <<"o","b","j","e","c","t","s"," ","a","n","d"," ","r","e","a","s","o","n","s">>,
  <<"v","i","d","h","e","y","a","k">>, <<"a","d","h","i","n","i","y","a","m">>, <<"p","u","r","a","s","t","h","a","p","i","t">>, <<"i","n","t","r","o","d","u","c","e","d">>, <<"p","a","s","s","e","d">>,
  <<"g","o","v","e","r","n","m","e","n","t">>, <<"l","e","g","i","s","l","a","t","i","o","n">>, <<"p","r","o","p","o","s","e","d">>, <<"s","p","o","n","s","o","r","e","d">>, <<"a","m","e","n","d","m","e","n","t">> >>

REAL_BILL_PATTERNS == <<
  \* a\s+bill\s+to\s+
  << Lit(<<"a">>), Ws1, Lit(<<"b","i","l","l">>), Ws1, Lit(<<"t","o">>), Ws1 >>,
  \* bill\s+no\.?\s*\d+
  << Lit(<<"b","i","l","l">>), Ws1, Lit(<<"n","o">>), Opt("."), Ws0, Dig1 >>,
  \* as\s+passed\s+by\s+(lok|rajya)\s+sabha
  << Lit(<<"a","s">>), Ws1, Lit(<<"p","a","s","s","e","d">>), Ws1, Lit(<<"b","y">>), Ws1,
     Alt(<< <<"l","o","k">>, <<"r","a","j","y","a">> >>), Ws1, Lit(<<"s","a","b","h","a">>) >>,
  \* introduced\s+in\s+(lok|rajya)\s+sabha
  << Lit(<<"i","n","t","r","o","d","u","c","e","d">>), Ws1, Lit(<<"i","n">>), Ws1,
     Alt(<< <<"l","o","k">>, <<"r","a","j","y","a">> >>), Ws1, Lit(<<"s","a","b","h","a">>) >>,
  \* minister\s+of\s+
  << Lit(<<"m","i","n","i","s","t","e","r">>), Ws1, Lit(<<"o","f">>), Ws1 >>,
  \* sponsored\s+by
  << Lit(<<"s","p","o","n","s","o","r","e","d">>), Ws1, Lit(<<"b","y">>) >>,
  \* statement\s+of\s+objects\s+and\s+reasons
  << Lit(<<"s","t","a","t","e","m","e","n","t">>), Ws1, Lit(<<"o","f">>), Ws1, Lit(<<"o","b","j","e","c","t","s">>), Ws1,
     Lit(<<"a","n","d">>), Ws1, Lit(<<"r","e","a","s","o","n","s">>) >>,
  \* financial\s+memorandum
  << Lit(<<"f","i","n","a","n","c","i","a","l">>), Ws1, Lit(<<"m","e","m","o","r","a","n","d","u","m">>) >> >>

\* question\s*:.*answer\s*:
QA_PATTERN ==
  << Lit(<<"q","u","e","s","t","i","o","n">>), Ws0, Lit(<<":">>), DotStar, Lit(<<"a","n","s","w","e","r">>), Ws0, Lit(<<":">>) >>

EXAMPLE_PATTERNS == <<
  \* example\s+bill
  << Lit(<<"e","x","a","m","p","l","e">>), Ws1, Lit(<<"b","i","l","l">>) >>,
  \* test\s+document
  << Lit(<<"t","e","s","t">>), Ws1, Lit(<<"d","o","c","u","m","e","n","t">>) >>,
  \* sample\s+text
  << Lit(<<"s","a","m","p","l","e">>), Ws1, Lit(<<"t","e","x","t">>) >>,
  \* for\s+demonstration\s+purposes
  << Lit(<<"f","o","r">>), Ws1, Lit(<<"d","e","m","o","n","s","t","r","a","t","i","o","n">>), Ws1, Lit(<<"p","u","r","p","o","s","e","s">>) >>,
  \* carriage\s+of\s+goods
  << Lit(<<"c","a","r","r","i","a","g","e">>), Ws1, Lit(<<"o","f">>), Ws1, Lit(<<"g","o","o","d","s">>) >>,
  QA_PATTERN >>

\* the minimum stripped length of a document
MIN_DOC_LEN == 500

\* line 52: len(text.strip()) < 500
TooShort(text) == Len(Strip(text)) < MIN_DOC_LEN

\* lines 56-58: some EXAMPLE_PATTERNS regex is found (re.IGNORECASE)
MatchesExamplePattern(text_lower) ==
  \E i \in 1..Len(EXAMPLE_PATTERNS) : re_search(EXAMPLE_PATTERNS[i], text_lower, IGNORECASE)

\* MatchesQAFormat without re.DOTALL: question and answer on one line only
MatchesQAFormat_SameLine(text_lower) == re_search(QA_PATTERN, text_lower, IGNORECASE)

\* line 61: the Q&A regex is found (re.IGNORECASE | re.DOTALL)
MatchesQAFormat(text_lower) == re_search(QA_PATTERN, text_lower, IGNORECASE_DOTALL)

\* lines 65-68: the number of REAL_BILL_PATTERNS regexes found
PatternCount(text_lower) ==
  Cardinality({i \in 1..Len(REAL_BILL_PATTERNS) :
                 re_search(REAL_BILL_PATTERNS[i], text_lower, IGNORECASE)})

\* line 71: sum(1 for k in BILL_KEYWORDS if k in text_lower)
KeywordCount(text_lower) ==
  Cardinality({i \in 1..Len(BILL_KEYWORDS) : Contains(text_lower, BILL_KEYWORDS[i])})

\* line 77: the text names a house of the Indian Parliament
MentionsHouse(text_lower) ==
  Contains(text_lower, <<"l","o","k"," ","s","a","b","h","a">>) \/ Contains(text_lower, <<"r","a","j","y","a"," ","s","a","b","h","a">>)

\* StrongIndicators without the weight of line 79
StrongIndicators_PatternsOnly(text_lower) == PatternCount(text_lower)

\* lines 65-79: strong_indicators as the validation logic reads it
StrongIndicators(text_lower) ==
  PatternCount(text_lower) + (IF MentionsHouse(text_lower) THEN 2 ELSE 0)

\* lines 82-87: the decision table
Decide(strong_indicators, keyword_count, bill_type) ==
  IF strong_indicators >= 2 /\ keyword_count >= 5
  THEN [is_valid |-> TRUE,
        message |-> <<"valid", strong_indicators, keyword_count>>,
        bill_type |-> bill_type]
  ELSE IF strong_indicators >= 1 /\ keyword_count >= 3
  THEN [is_valid |-> TRUE, message |-> <<"possible">>, bill_type |-> bill_type]
  ELSE [is_valid |-> FALSE,
        message |-> <<"not_a_bill", keyword_count, strong_indicators>>,
        bill_type |-> "invalid"]

\* lines 52-87 with text_lower = text.lower()
Classify(text, text_lower) ==
  IF TooShort(text)
  THEN [is_valid |-> FALSE, message |-> <<"too_short">>, bill_type |-> "invalid"]
  ELSE IF MatchesExamplePattern(text_lower)
  THEN [is_valid |-> FALSE, message |-> <<"example">>, bill_type |-> "example"]
  ELSE IF MatchesQAFormat(text_lower)
  THEN [is_valid |-> FALSE, message |-> <<"qa_format">>, bill_type |-> "example"]
  ELSE Decide(StrongIndicators(text_lower), KeywordCount(text_lower),
              IF MentionsHouse(text_lower) THEN "indian" ELSE "unknown")

\* is_valid_government_doc(text): (is_valid, reason_message, bill_type); the
\* message is modelled by the branch that formats it and the counts it embeds
\* (text_lower is bound so that it is computed once)
is_valid_government_doc(text) ==
  CHOOSE result \in {Classify(t, text_lower) : <<t, text_lower>> \in {<<text, Lower(text)>>}} : TRUE

\* ------------------------------------------------------ section extractor

\* line 276, 282, 303: the placeholder texts
NO_ANALYSIS == <<"N","o"," ","a","n","a","l","y","s","i","s"," ","a","v","a","i","l","a","b","l","e",".">>
SECTION_NOT_FOUND == <<"S","e","c","t","i","o","n"," ","n","o","t"," ","f","o","u","n","d"," ","i","n"," ","a","n","a","l","y","s","i","s",".">>
NO_CONTENT == <<"N","o"," ","c","o","n","t","e","n","t"," ","i","n"," ","t","h","i","s"," ","s","e","c","t","i","o","n",".">>

\* lines 285-287
headings == <<
  <<"D","O","C","U","M","E","N","T"," ","T","Y","P","E",":">>, <<"R","E","A","S","O","N",":">>, <<"S","E","C","T","O","R",":">>, <<"P","R","O","P","O","S","E","R","/","S","P","O","N","S","O","R",":">>, <<"O","B","J","E","C","T","I","V","E",":">>,
  <<"D","E","T","A","I","L","E","D"," ","S","U","M","M","A","R","Y",":">>, <<"I","M","P","A","C","T"," ","A","N","A","L","Y","S","I","S",":">>, <<"B","E","N","E","F","I","C","I","A","R","I","E","S",":">>,
  <<"A","F","F","E","C","T","E","D"," ","G","R","O","U","P","S",":">>, <<"P","O","S","I","T","I","V","E","S",":">>, <<"N","E","G","A","T","I","V","E","S"," ","/"," ","R","I","S","K","S",":">> >>

\* line 293: the offset at which the search for the next heading starts, given
\* start_idx (the offset just after the title)
HeadingSearchFrom(start_idx) == start_idx + 1

\* lines 290-295: the loop over headings, from heading number i on
RECURSIVE EndIdx(_, _, _, _)
EndIdx(content, start_idx, i, end_idx) ==
  IF i > Len(headings) THEN end_idx
  ELSE LET next_heading == Find(content, headings[i], HeadingSearchFrom(start_idx))
       IN EndIdx(content, start_idx, i + 1,
                 IF next_heading # -1 /\ next_heading < end_idx THEN next_heading ELSE end_idx)

\* line 300: ^\s*[-*]\s*
BULLET_PATTERN == << Bol, Ws0, OneOf({"-", "*"}), Ws0 >>

\* line 301: \n\s*\n\s*\n+
BLANK_LINES_PATTERN == << Lit(<<"\n">>), Ws0, Lit(<<"\n">>), Ws0, Nl1 >>

\* lines 300-301: the clean-up of the stripped slice
CleanUp(section_text) ==
  re_sub(BLANK_LINES_PATTERN, <<"\n","\n">>,
         re_sub(BULLET_PATTERN, <<>>, section_text, MULTILINE), NoFlags)

\* OrNoContent without the placeholder of line 303
OrNoContent_Identity(section_text) == section_text

\* line 303: section_text if section_text else "No content in this section."
OrNoContent(section_text) == IF section_text = <<>> THEN NO_CONTENT ELSE section_text

\* extract_section(title) with st.session_state.analysis = analysis, which is
\* <<>> for None and <<content>> for a string
extract_section(analysis, title) ==
  IF analysis = <<>> \/ analysis[1] = <<>> THEN NO_ANALYSIS
  ELSE LET content == analysis[1]
           found == Find(content, title, 0)
       IN IF found = -1 THEN SECTION_NOT_FOUND
          ELSE LET start_idx == found + Len(title)
                   end_idx == EndIdx(content, start_idx, 1, Len(content))
               IN OrNoContent(CleanUp(Strip(Slice(content, start_idx, end_idx))))

\* ------------------------------------------------------------- PDF export

\* line 311 and 318: the y of the first line of a page
TOP_Y == 800
\* line 316: a new page starts when y is below this
BOTTOM_Y == 50
\* lines 326, 329: the line height
LINE_STEP == 15
\* lines 322-323: the maximum characters per drawn line
MAX_LINE_CHARS == 95
\* lines 325, 328: the x of every drawn line
LEFT_X == 50

\* text.split("\n")
RECURSIVE SplitLines(_)
SplitLines(text) ==
  LET nl == {i \in 1..Len(text) : text[i] = "\n"}
  IN IF nl = {} THEN <<text>>
     ELSE LET i == CHOOSE x \in nl : \A y \in nl : x <= y
          IN <<SubSeq(text, 1, i - 1)>> \o SplitLines(SubSeq(text, i + 1, Len(text)))

\* line 323: [line[i:i+95] for i in range(0, len(line), 95)]
Chunks(line) ==
  [c \in 1..((Len(line) + MAX_LINE_CHARS - 1) \div MAX_LINE_CHARS) |->
     Slice(line, (c - 1) * MAX_LINE_CHARS, c * MAX_LINE_CHARS)]

\* DrawnStrings that cuts a line at 95 characters instead of wrapping it
DrawnStrings_Truncated(line) == <<Slice(line, 0, MAX_LINE_CHARS)>>

\* lines 322-329: what one line draws: its chunks when it is longer than 95
\* characters, else the line itself
DrawnStrings(line) == IF Len(line) > MAX_LINE_CHARS THEN Chunks(line) ELSE <<line>>

\* lines 315-329: the loop over lines, from line number i on; pdf is
\* [draws, page, y], a draw is [page, x, y, s]
RECURSIVE DrawLines(_, _, _)
DrawLines(lines, i, pdf) ==
  IF i > Len(lines) THEN pdf
  ELSE LET newpage == pdf.y < BOTTOM_Y
           page == IF newpage THEN pdf.page + 1 ELSE pdf.page
           y == IF newpage THEN TOP_Y ELSE pdf.y
           strs == DrawnStrings(lines[i])
       IN DrawLines(lines, i + 1,
            [draws |-> pdf.draws \o
                       [c \in 1..Len(strs) |->
                          [page |-> page, x |-> LEFT_X, y |-> y - (c - 1) * LINE_STEP, s |-> strs[c]]],
             page |-> page,
             y |-> y - Len(strs) * LINE_STEP])

\* generate_pdf(text): the drawString calls in order and the number of pages
generate_pdf(text) ==
  DrawLines(SplitLines(text), 1, [draws |-> <<>>, page |-> 1, y |-> TOP_Y])

\* ------------------------------------------------------------------ state

\* st.session_state: analysis, full_text, last_file, bill_type and
\* validation_status (None is <<>>, any other value v is <<v>>; full_text is a
\* string).
\* run: what the last script run was given and did. A script run is one step:
\* the runs of a session follow one another, and a run that a rerun request
\* ends early is the step up to the yield point where it ended.
\* last_verdict: history kept for the properties: what is_valid_government_doc
\* returned (line 147) for the file that set last_file, None before the call.
\* last_upload, analysis_source: history kept for the properties: the uploaded
\* file that set last_file, and the document text the stored analysis was
\* prompted with.
\* verdicts, classed: is_valid_government_doc and the test of line 343 are
\* pure functions; their results on the text of each upload and on each LLM
\* response of this model are kept here, computed once.
\* fn_in, fn_out, fn_pc: one application of a pure function (its argument, its
\* result, "ready" before the call and "done" after it).
VARIABLES analysis, full_text, last_file, bill_type, validation_status,
          run, last_upload, last_verdict, analysis_source, verdicts, classed,
          fn_in, fn_out, fn_pc

session == <<analysis, full_text, last_file, bill_type, validation_status,
             run, last_upload, last_verdict, analysis_source, verdicts, classed>>
fn == <<fn_in, fn_out, fn_pc>>
vars == <<session, fn>>


\* ------------------------------------------------------------ script run

\* line 263: the characters of full_text the analysis prompt embeds
PROMPT_TEXT_LIMIT == 18000

\* The files a user can put in the uploader. opens: PdfReader(uploaded_file)
\* returns; pages: what page.extract_text() does on each page (raises, or
\* returns text, <<>> for None or an empty string).
Page(t) == [raises |-> FALSE, text |-> t]
BadPage == [raises |-> TRUE, text |-> <<>>]

BillPage == <<"A","s"," ","i","n","t","r","o","d","u","c","e","d"," ","i","n"," ","L","o","k"," ","S","a","b","h","a","\n","A"," ","B","i","l","l"," ","t","o"," ","a","m","e","n","d"," ","t","h","e"," ","a","c","t",".","\n","p","a","r","l","i","a","m","e","n","t"," ","g","o","v","e","r","n","m","e","n","t"," ","g","a","z","e","t","t","e">>
DraftPage == <<"A"," ","B","I","L","L"," ","t","o"," ","r","e","g","u","l","a","t","e"," ","b","a","n","k","i","n","g",".","\n","p","a","r","l","i","a","m","e","n","t"," ","a","c","t"," ","g","o","v","e","r","n","m","e","n","t"," ","g","a","z","e","t","t","e">>
InvoicePage == <<"I","n","v","o","i","c","e"," ","#","4","5","2","1",","," ","d","u","e"," ","A","p","r","i","l"," ","2","0","2","4">>
FillerPage == Repeat("x", MIN_DOC_LEN)

Files == <<
  [name |-> "bill.pdf", opens |-> TRUE,
   pages |-> << Page(BillPage), BadPage, Page(<<>>), Page(FillerPage) >>],
  [name |-> "invoice.pdf", opens |-> TRUE, pages |-> << Page(InvoicePage) >>],
  [name |-> "invoice.pdf", opens |-> TRUE, pages |-> << Page(DraftPage), Page(FillerPage) >>],
  [name |-> "notes.pdf", opens |-> TRUE, pages |-> << Page(InvoicePage), Page(FillerPage) >>],
  [name |-> "scan.pdf", opens |-> TRUE, pages |-> << BadPage, Page(<<>>) >>],
  [name |-> "broken.pdf", opens |-> FALSE, pages |-> <<>>] >>

\* what llm.invoke does: raises, or returns a response with this content
Responses ==
  << <<"D","O","C","U","M","E","N","T"," ","T","Y","P","E",":","\n","A","c","t","u","a","l"," ","B","i","l","l","\n","S","E","C","T","O","R",":","\n","F","i","n","a","n","c","e">>,
     <<"D","O","C","U","M","E","N","T"," ","T","Y","P","E",":","\n","O","t","h","e","r","\n","R","E","A","S","O","N",":","\n","E","x","a","m","p","l","e"," ","t","e","x","t">>,
     <<>> >>
LLMResponses == {Responses[i] : i \in 1..Len(Responses)}
LLMOutcomes ==
  {[raises |-> TRUE, content |-> <<>>]} \cup
  {[raises |-> FALSE, content |-> c] : c \in LLMResponses}

\* lines 135-142: the loop over reader.pages from page i on, raw_text so far
RECURSIVE ExtractPages(_, _, _)
ExtractPages(pages, i, raw_text) ==
  IF i > Len(pages) THEN raw_text
  ELSE ExtractPages(pages, i + 1,
         IF ~pages[i].raises /\ pages[i].text # <<>>
         THEN raw_text \o pages[i].text \o <<"\n">>
         ELSE raw_text)

\* raw_text after the loop of lines 135-142 over the pages of upload i
UploadText(i) == ExtractPages(Files[i].pages, 1, <<>>)

\* line 147: is_valid_government_doc(raw_text)
Validated(raw_text) ==
  IF \E i \in DOMAIN verdicts : UploadText(i) = raw_text
  THEN verdicts[CHOOSE i \in DOMAIN verdicts : UploadText(i) = raw_text]
  ELSE is_valid_government_doc(raw_text)

\* the truth value of st.session_state.analysis
Truthy(a) == a # None /\ a[1] # <<>>

\* The yield points of the script, by source line: the st.* calls and the
\* accesses to st.session_state. A rerun request that is pending when the
\* script reaches one of them ends the run there, before the call or the
\* access has its effect; what the run assigned to st.session_state before
\* that point stays. A run is given the line from which a rerun request is
\* pending (0: none arrives) and ends at the first yield point it reaches at or
\* after that line. One line stands for each stretch of the script over which
\* the outcome is the same.
YieldPoints == {128, 129, 131, 144, 148, 149, 158, 175, 186, 197, 267, 336, 427, 454, 498, 512}
NoRerun == 0

\* the number of script runs followed in one session
MaxRuns == 2

\* The script run so far: the session state, the history and what the run did.
\*   upload, key: the file in the uploader (0: none, else its number in Files)
\*                and whether GROQ_API_KEY is in os.environ
\*   cut:         the line from which a rerun request is pending, or NoRerun;
\*                once the run is over, the line of the yield point where
\*                the request ended it, or NoRerun
\*   force, click, user_q: the checkbox, the button and the question box as
\*                the run read them (FALSE when the run did not reach them)
\*   extracted:   the run read the pages of the upload (lines 134-142)
\*   stored:      the run stored their text (line 144)
\*   before:      analysis after the file upload block
\*   handler:     "not_run", or what happened in the Generate Analysis handler:
\*                "raised" (llm.invoke raised), "stored" (line 267 done) or
\*                "interrupted" (the run ended in it before either)
\*   calls:       the llm.invoke calls, in order
\*   errors:      the st.error messages shown
\*   end:         "running", then "completed", "stopped_rejected" (st.stop,
\*                line 177), "stopped_no_key" (st.stop, line 187), "exception"
\*                or "interrupted" (ended at a yield point by a rerun request)
\*   prev:        whether the run before this one stopped at line 187
\*   n:           the number of the run in its session
Begin(up, key, cut) ==
  [analysis |-> analysis, full_text |-> full_text, last_file |-> last_file,
   bill_type |-> bill_type, validation_status |-> validation_status,
   last_upload |-> last_upload, last_verdict |-> last_verdict,
   analysis_source |-> analysis_source,
   upload |-> up, key |-> key, cut |-> cut,
   force |-> FALSE, click |-> FALSE, user_q |-> FALSE,
   extracted |-> FALSE, stored |-> FALSE, before |-> analysis, handler |-> "not_run",
   calls |-> <<>>, errors |-> {}, end |-> "running",
   prev |-> run.end = "stopped_no_key", n |-> run.n + 1]

\* the run reaches the yield point of this line
At(r, line) ==
  IF r.end = "running" /\ r.cut # NoRerun /\ r.cut <= line
  THEN [r EXCEPT !.end = "interrupted", !.cut = line]
  ELSE r

\* the statement of this line, a yield point, turns r into next
Do(r, line, next) == IF At(r, line).end = "running" THEN next ELSE At(r, line)

\* lines 127-144: a file whose name is not last_file is taken in: the state
\* of the previous file is reset, the PDF is opened and its text is stored
FileUpload(r, up) ==
  LET f == Files[up]
      named == [r EXCEPT !.last_file = Some(f.name), !.last_upload = up,
                         !.last_verdict = None]
      cleared == [named EXCEPT !.analysis = None, !.analysis_source = None,
                               !.before = None]
      reset == [cleared EXCEPT !.validation_status = None]
  IN IF At(r, 127).end # "running" \/ r.last_file = Some(f.name) THEN At(r, 127)
     ELSE IF At(r, 128).end # "running" THEN At(r, 128)
     ELSE IF At(named, 129).end # "running" THEN At(named, 129)
     ELSE IF At(cleared, 131).end # "running" THEN At(cleared, 131)
     ELSE IF ~f.opens THEN [reset EXCEPT !.end = "exception"]
     ELSE LET read == [reset EXCEPT !.extracted = TRUE]
          IN Do(read, 144, [read EXCEPT !.full_text = ExtractPages(f.pages, 1, <<>>),
                                        !.stored = TRUE])

\* lines 146-149: the text just stored is validated
ValidateUpload(r) ==
  IF r.end # "running" \/ ~r.stored THEN r
  ELSE LET v == Validated(r.full_text)
           l147 == [r EXCEPT !.last_verdict = Some(v.is_valid)]
           l148 == Do(l147, 148, [l147 EXCEPT !.validation_status =
                                    Some([is_valid |-> v.is_valid, message |-> v.message])])
       IN Do(l148, 149, [l148 EXCEPT !.bill_type = Some(v.bill_type)])

\* the document of this run was rejected: validation_status is (False, message)
Rejected(status) == status # None /\ ~status[1].is_valid

\* lines 158-183: a rejected document stops the run unless the box is ticked
ValidationGate(r, force) ==
  LET l158 == At(r, 158)
  IN IF l158.end # "running" THEN l158
     ELSE IF r.validation_status = None THEN r
     ELSE IF ~Rejected(r.validation_status) THEN At(r, 179)
     ELSE LET shown == Do(r, 162, [r EXCEPT !.errors = @ \cup {"rejected"}])
              read == Do(shown, 175, [shown EXCEPT !.force = force])
          IN IF read.end = "running" /\ ~force
             THEN [read EXCEPT !.end = "stopped_rejected"]
             ELSE read

\* KeyCheck without the st.stop() of line 187
KeyCheck_NeverStops(r) ==
  IF r.end # "running" \/ r.key THEN r
  ELSE Do(r, 186, [r EXCEPT !.errors = @ \cup {"no_key"}])

\* lines 185-187
KeyCheck(r) ==
  IF r.end # "running" \/ r.key THEN r
  ELSE Do(r, 186, [r EXCEPT !.errors = @ \cup {"no_key"}, !.end = "stopped_no_key"])

\* AnalysisResult with the analysis cleared when llm.invoke raises
AnalysisResult_ClearsOnError(r, outcome) ==
  IF outcome.raises
  THEN LET raised == [r EXCEPT !.handler = "raised",
                               !.analysis = None, !.analysis_source = None]
       IN Do(raised, 269, [raised EXCEPT !.errors = @ \cup {"analysis_error"}])
  ELSE Do([r EXCEPT !.handler = "interrupted"], 267,
          [r EXCEPT !.analysis = Some(outcome.content),
                    !.analysis_source = Some(Slice(r.full_text, 0, PROMPT_TEXT_LIMIT)),
                    !.handler = "stored"])

\* lines 265-269: llm.invoke(prompt) returned or raised
AnalysisResult(r, outcome) ==
  IF outcome.raises
  THEN LET raised == [r EXCEPT !.handler = "raised"]
       IN Do(raised, 269, [raised EXCEPT !.errors = @ \cup {"analysis_error"}])
  ELSE Do([r EXCEPT !.handler = "interrupted"], 267,
          [r EXCEPT !.analysis = Some(outcome.content),
                    !.analysis_source = Some(Slice(r.full_text, 0, PROMPT_TEXT_LIMIT)),
                    !.handler = "stored"])

\* lines 196-269: the Generate Analysis button
GenerateAnalysis(r, click, outcome) ==
  LET l196 == At(r, 196)
  IN IF l196.end # "running" \/ ~click THEN l196
     ELSE LET pressed == [r EXCEPT !.click = TRUE, !.handler = "interrupted"]
              called == [pressed EXCEPT !.calls = Append(@, "analysis")]
          IN IF At(pressed, 197).end # "running" THEN At(pressed, 197)
             ELSE IF At(pressed, 263).end # "running" THEN At(pressed, 263)
             ELSE AnalysisResult(called, outcome)

\* line 343, with doc_type and reason of lines 340-341
IsExample(a) ==
  \/ Contains(Lower(extract_section(a, <<"D","O","C","U","M","E","N","T"," ","T","Y","P","E",":">>)), <<"e","x","a","m","p","l","e">>)
  \/ Contains(Lower(extract_section(a, <<"R","E","A","S","O","N",":">>)), <<"e","x","a","m","p","l","e">>)

\* line 343: the stored analysis is classed as an example
ClassedExample(a) ==
  IF \E i \in DOMAIN classed : Some(Responses[i]) = a
  THEN classed[CHOOSE i \in DOMAIN classed : Some(Responses[i]) = a]
  ELSE IsExample(a)

\* lines 336-437: the stored analysis is displayed; the tabs of an analysis
\* not classed as an example hold the st.error of line 426
Display(r) ==
  LET l336 == At(r, 336)
  IN IF l336.end # "running" \/ ~Truthy(r.analysis) THEN l336
     ELSE IF ClassedExample(r.analysis) THEN At(r, 344)
     ELSE LET l358 == At(r, 358)
              l426 == Do(l358, 426, [l358 EXCEPT !.errors = @ \cup {"risks"}])
          IN At(l426, 428)

\* line 440: the chat section is shown
ChatShown(r) == r.end = "running" /\ Truthy(r.analysis) /\ r.full_text # <<>>

\* lines 440-509: the question box; llm is a name of the run only when the
\* run had a file and passed the key check
Chat(r, user_q, outcome) ==
  LET l440 == At(r, 440)
  IN IF l440.end # "running" \/ ~ChatShown(r) THEN l440
     ELSE LET l451 == At(r, 451)
          IN IF l451.end # "running" \/ ~user_q THEN l451
             ELSE LET asked == [r EXCEPT !.user_q = TRUE]
                      called == [asked EXCEPT !.calls = Append(@, "chat")]
                  IN IF At(asked, 454).end # "running" THEN At(asked, 454)
                     ELSE IF At(asked, 485).end # "running" THEN At(asked, 485)
                     ELSE IF r.upload = 0
                     THEN Do(asked, 509, [asked EXCEPT !.errors = @ \cup {"chat_error"}])
                     ELSE IF outcome.raises
                     THEN Do(called, 509, [called EXCEPT !.errors = @ \cup {"chat_error"}])
                     ELSE At(called, 506)

\* lines 512-526: the footer; the script reached its last line
Finish(r) ==
  LET l512 == At(r, 512)
  IN IF l512.end = "running" THEN [l512 EXCEPT !.end = "completed"] ELSE l512

\* the run is over: st.session_state keeps what the run assigned
Commit(r) ==
  /\ analysis' = r.analysis
  /\ full_text' = r.full_text
  /\ last_file' = r.last_file
  /\ bill_type' = r.bill_type
  /\ validation_status' = r.validation_status
  /\ last_upload' = r.last_upload
  /\ last_verdict' = r.last_verdict
  /\ analysis_source' = r.analysis_source
  /\ verdicts' = verdicts
  /\ classed' = classed
  /\ run' = [upload |-> r.upload, key |-> r.key,
             cut |-> IF r.end = "interrupted" THEN r.cut ELSE NoRerun,
             force |-> r.force, click |-> r.click,
             user_q |-> r.user_q, extracted |-> r.extracted, stored |-> r.stored,
             before |-> r.before,
             handler |-> r.handler, calls |-> r.calls, errors |-> r.errors,
             end |-> r.end, prev |-> r.prev, n |-> r.n]
  /\ UNCHANGED fn

Choices(cond, values, default) == IF cond THEN values ELSE {default}
NoOutcome == [raises |-> FALSE, content |-> <<>>]

\* lines 109-121: the session state of a new session
NewSession ==
  /\ analysis = None
  /\ full_text = <<>>
  /\ last_file = None
  /\ bill_type = None
  /\ validation_status = None
  /\ last_upload = 0
  /\ last_verdict = None
  /\ analysis_source = None
  /\ run = [upload |-> 0, key |-> FALSE, cut |-> NoRerun,
            force |-> FALSE, click |-> FALSE,
            user_q |-> FALSE, extracted |-> FALSE, stored |-> FALSE, before |-> None,
            handler |-> "not_run", calls |-> <<>>, errors |-> {},
            end |-> "none", prev |-> FALSE, n |-> 0]

\* the pure functions are applied outside any script run
NoSession == NewSession /\ verdicts = <<>> /\ classed = <<>>

Init ==
  /\ NewSession
  /\ verdicts = [i \in 1..Len(Files) |-> is_valid_government_doc(UploadText(i))]
  /\ classed = [i \in 1..Len(Responses) |-> IsExample(Some(Responses[i]))]
  /\ fn_in = <<>>
  /\ fn_out = <<>>
  /\ fn_pc = "idle"

\* one run of the script with the uploader empty (line 126 is false)
RunWithoutFile ==
  /\ run.n < MaxRuns
  /\ \E key \in BOOLEAN, cut \in {NoRerun} \cup YieldPoints :
    \E begun \in {Begin(0, key, cut)} :
    \E shown \in {Display(begun)} :
      \E user_q \in Choices(ChatShown(shown), BOOLEAN, FALSE) :
        Commit(Finish(Chat(shown, user_q, NoOutcome)))

\* one run of the script with a file in the uploader
RunWithFile ==
  /\ run.n < MaxRuns
  /\ \E up \in 1..Len(Files), key \in BOOLEAN, cut \in {NoRerun} \cup YieldPoints :
    \E begun \in {Begin(up, key, cut)} :
    \E taken \in {FileUpload(begun, up)} :
    \E uploaded \in {ValidateUpload(taken)} :
      \E force \in Choices(uploaded.end = "running" /\ Rejected(uploaded.validation_status),
                           BOOLEAN, FALSE) :
        \E checked \in {KeyCheck(ValidationGate(uploaded, force))} :
          \E click \in Choices(checked.end = "running", BOOLEAN, FALSE) :
            \E outcome \in Choices(click, LLMOutcomes, NoOutcome) :
              \E generated \in {GenerateAnalysis(checked, click, outcome)} :
              \E shown \in {Display(generated)} :
                \E user_q \in Choices(ChatShown(shown), BOOLEAN, FALSE) :
                  \E answer \in Choices(user_q, {o \in LLMOutcomes : o.content = <<>>}, NoOutcome) :
                    \E r \in {Finish(Chat(shown, user_q, answer))} :
                      Commit(r)

Next == RunWithoutFile \/ RunWithFile

Spec == Init /\ [][Next]_vars
\* -------------------------------------------- inputs of the pure functions

\* how many fragments one generated document combines
MaxFrags == 3

DocFragments == <<
  <<"A"," ","B","i","l","l"," ","t","o"," ","r","e","g","u","l","a","t","e"," ","b","a","n","k","i","n","g",".","\n">>,
  <<"B","I","L","L"," ","N","o","."," ","4","2"," ","o","f"," ","2","0","2","4","\n">>,
  <<"A","s"," ","i","n","t","r","o","d","u","c","e","d"," ","i","n"," ","L","o","k"," ","S","a","b","h","a","\n">>,
  <<"S","t","a","t","e","m","e","n","t"," ","o","f"," ","O","b","j","e","c","t","s"," ","a","n","d"," ","R","e","a","s","o","n","s","\n">>,
  <<"T","h","e"," ","M","i","n","i","s","t","e","r"," ","o","f"," ","F","i","n","a","n","c","e","\n">>,
  <<"p","a","r","l","i","a","m","e","n","t"," ","a","c","t"," ","g","o","v","e","r","n","m","e","n","t"," ","g","a","z","e","t","t","e","\n">>,
  <<"R","a","j","y","a"," ","S","a","b","h","a","\n">>,
  <<"Q","u","e","s","t","i","o","n",":"," ","w","h","a","t"," ","i","s"," ","i","t","?","\n","A","n","s","w","e","r",":"," ","a"," ","s","a","m","p","l","e",".","\n">>,
  <<"Q","U","E","S","T","I","O","N"," ",":"," ","w","h","a","t","?"," ","A","n","s","w","e","r"," ",":"," ","t","h","i","s",".","\n">>,
  <<"E","x","a","m","p","l","e"," ","B","i","l","l","\n">>,
  <<"I","n","v","o","i","c","e"," ","4","5","2","1",","," ","d","u","e"," ","A","p","r","i","l"," ","2","0","2","4","\n">>,
  \* with the whitespace characters of code points 11, 160 and 31
  <<"S","p","o","n","s","o","r","e","d","","b","y"," ","t","h","e"," ","m","e","m","b","e","r","">> >>

RECURSIVE JoinFrags(_, _, _)
JoinFrags(frags, sel, i) ==
  IF i > Len(frags) THEN <<>>
  ELSE (IF i \in sel THEN frags[i] ELSE <<>>) \o JoinFrags(frags, sel, i + 1)

Paddings == <<
  <<>>,
  Repeat("x", MIN_DOC_LEN),
  Repeat("x", MIN_DOC_LEN - 1),
  Repeat(" ", MIN_DOC_LEN) >>

Selections(n, k) == {sel \in SUBSET (1..n) : Cardinality(sel) <= k}

ValidatorInputs ==
  {JoinFrags(DocFragments, sel, 1) \o Paddings[p] :
     sel \in Selections(Len(DocFragments), MaxFrags), p \in 1..Len(Paddings)}

InitValidator ==
  /\ fn_in \in {[f |-> "validate", text |-> t] : t \in ValidatorInputs}
  /\ fn_out = <<>>
  /\ fn_pc = "ready"
  /\ NoSession

Validate ==
  /\ fn_in.f = "validate"
  /\ fn_pc = "ready"
  /\ fn_out' = is_valid_government_doc(fn_in.text)
  /\ fn_pc' = "done"
  /\ UNCHANGED <<fn_in, session>>

SpecValidator == InitValidator /\ [][Validate]_vars

\* how many parts one generated analysis text combines
MaxParts == 3

AnalysisParts == <<
  <<"S","E","C","T","O","R",":">>,
  <<"O","B","J","E","C","T","I","V","E",":">>,
  <<" ","F","i","n","a","n","c","e"," ">>,
  <<"\n","-"," ","T","o"," ","r","e","g","u","l","a","t","e"," ","b","a","n","k","s",".","\n","\n","\n">>,
  <<"S","e","c","t","i","o","n"," ","n","o","t"," ","f","o","u","n","d"," ","i","n"," ","a","n","a","l","y","s","i","s",".">>,
  \* with the whitespace characters of code points 11 and 160
  <<"","-"," ","B","a","n","k","s"," ">> >>

RequestedTitles == { <<"S","E","C","T","O","R",":">>, <<"O","B","J","E","C","T","I","V","E",":">>, <<"N","E","G","A","T","I","V","E","S"," ","/"," ","R","I","S","K","S",":">> }

RECURSIVE ConcatAll(_, _)
ConcatAll(parts, idx) ==
  IF idx = <<>> THEN <<>> ELSE parts[Head(idx)] \o ConcatAll(parts, Tail(idx))

AnalysisContents ==
  {ConcatAll(AnalysisParts, idx) :
     idx \in UNION {[1..n -> 1..Len(AnalysisParts)] : n \in 0..MaxParts}}

\* st.session_state.analysis: <<>> for None, <<content>> for a string
AnalysisValues == {<<>>} \cup {<<c>> : c \in AnalysisContents}

InitExtract ==
  /\ fn_in \in {[f |-> "extract", analysis |-> a, title |-> t] :
                  a \in AnalysisValues, t \in RequestedTitles}
  /\ fn_out = <<>>
  /\ fn_pc = "ready"
  /\ NoSession

Extract ==
  /\ fn_in.f = "extract"
  /\ fn_pc = "ready"
  /\ fn_out' = extract_section(fn_in.analysis, fn_in.title)
  /\ fn_pc' = "done"
  /\ UNCHANGED <<fn_in, session>>

SpecExtract == InitExtract /\ [][Extract]_vars

\* how many lines one generated export text has
MaxLines == 3

Digits == <<"0", "1", "2", "3", "4", "5", "6", "7", "8", "9">>

\* a line of n characters
LineOf(n) == [j \in 1..n |-> Digits[((j - 1) % 10) + 1]]

LineLengths ==
  {0, 1, MAX_LINE_CHARS, MAX_LINE_CHARS + 1, 2 * MAX_LINE_CHARS, 2 * MAX_LINE_CHARS + 1}

\* "\n".join(lines)
RECURSIVE JoinLines(_)
JoinLines(lines) ==
  IF Len(lines) = 0 THEN <<>>
  ELSE IF Len(lines) = 1 THEN lines[1]
  ELSE lines[1] \o <<"\n">> \o JoinLines(Tail(lines))

\* the lines on one page: y runs from TOP_Y down to BOTTOM_Y
LinesPerPage == ((TOP_Y - BOTTOM_Y) \div LINE_STEP) + 1

\* texts of up to MaxLines lines
ShortTexts ==
  {JoinLines([i \in 1..Len(lens) |-> LineOf(lens[i])]) :
     lens \in UNION {[1..n -> LineLengths] : n \in 1..MaxLines}}

\* texts that reach the bottom of the first page: k one-character lines, k
\* around the number of lines a page takes, and then one more line
PageEndTexts ==
  {JoinLines([i \in 1..(k + 1) |-> IF i <= k THEN LineOf(1) ELSE LineOf(n)]) :
     k \in (LinesPerPage - 2)..LinesPerPage, n \in LineLengths}

ExportTexts == ShortTexts \cup PageEndTexts

InitExport ==
  /\ fn_in \in {[f |-> "pdf", text |-> t] : t \in ExportTexts}
  /\ fn_out = <<>>
  /\ fn_pc = "ready"
  /\ NoSession

Export ==
  /\ fn_in.f = "pdf"
  /\ fn_pc = "ready"
  /\ fn_out' = generate_pdf(fn_in.text)
  /\ fn_pc' = "done"
  /\ UNCHANGED <<fn_in, session>>

SpecExport == InitExport /\ [][Export]_vars

\* ----------------------------------------------------------------- claims

\* what the upload of these pages is expected to store: the text of every page
\* that yields text, each followed by a newline, in page order
YieldsText(p) == ~p.raises /\ p.text # <<>>
RECURSIVE JoinPageTexts(_)
JoinPageTexts(ps) ==
  IF ps = <<>> THEN <<>> ELSE Head(ps).text \o <<"\n">> \o JoinPageTexts(Tail(ps))
ExpectedText(pages) == JoinPageTexts(SelectSeq(pages, YieldsText))

\* C1 as stated: when the llm.invoke of the Generate Analysis handler raises,
\* the stored analysis is what it was before the handler, the exception does
\* not leave the handler and the error is shown with st.error.
C1_FailedAnalysisShown ==
  run.handler = "raised" =>
    /\ analysis = run.before
    /\ run.end # "exception"
    /\ "analysis_error" \in run.errors

\* C1: when the llm.invoke of the Generate Analysis handler raises, the stored
\* analysis is what it was before the handler and the exception does not leave
\* the handler; the error is shown with st.error unless a rerun request ended
\* the run at that call (line 269), and a run that is not ended by a rerun
\* request goes on to its last line.
C1_FailedAnalysisKeepsState ==
  run.handler = "raised" =>
    /\ analysis = run.before
    /\ run.end \in {"completed", "interrupted"}
    /\ "analysis_error" \in run.errors \/ (run.end = "interrupted" /\ run.cut = 269)

\* a failed Generate Analysis in a session that already holds an analysis, its
\* error shown and the run completed
C1_Witness ==
  /\ run.handler = "raised" /\ Truthy(analysis)
  /\ "analysis_error" \in run.errors /\ run.end = "completed"

\* C2 as stated: in a run whose uploaded document is_valid_government_doc
\* rejected (the file in the uploader is the one that set last_file, and the
\* call of line 147 returned False for it) and whose force-override box is not
\* ticked, llm.invoke is never called, neither by the Generate Analysis handler
\* nor by the chat, and no analysis is stored.
C2_RejectedNeedsOptIn ==
  (run.upload # 0 /\ run.upload = last_upload /\ last_verdict = Some(FALSE) /\ ~run.force) =>
    /\ run.calls = <<>>
    /\ run.handler # "stored"
    /\ analysis = run.before

\* C7 as stated: a run that reads the pages of an upload stores as full_text
\* the texts of the pages that yield text, each followed by a newline, in page
\* order, skipping every page whose extract_text raises or returns nothing;
\* when no page yields text the stored text is empty, the run does not fail
\* and the stored validation status rejects the document as too short.
C7_PagesSkipped ==
  run.extracted =>
    /\ full_text = ExpectedText(Files[run.upload].pages)
    /\ ExpectedText(Files[run.upload].pages) = <<>> =>
         /\ run.end # "exception"
         /\ validation_status = Some([is_valid |-> FALSE, message |-> <<"too_short">>])

\* C8 as stated: every run with a file and without GROQ_API_KEY shows the
\* configuration error and stops at the key check.
C8_AlwaysConfigError ==
  (run.upload # 0 /\ ~run.key) =>
    /\ "no_key" \in run.errors
    /\ run.end = "stopped_no_key"
    /\ run.calls = <<>>
    /\ run.handler = "not_run"

\* C8: a run with a file and without GROQ_API_KEY never calls llm.invoke, does
\* not run the Generate Analysis handler and leaves the analysis alone; it ends
\* at the key check with the configuration error, or before it: at the
\* validation gate (rejected document, box not ticked), in PdfReader, or at a
\* yield point up to the st.error of line 186 when a rerun request is pending.
C8_NoKeyNoAnalysis ==
  (run.upload # 0 /\ ~run.key) =>
    /\ run.calls = <<>>
    /\ run.handler = "not_run"
    /\ analysis = run.before
    /\ run.end \in {"stopped_no_key", "stopped_rejected", "exception", "interrupted"}
    /\ run.end = "stopped_no_key" <=> "no_key" \in run.errors
    /\ run.end = "stopped_rejected" => Rejected(validation_status) /\ ~run.force
    /\ run.end = "exception" => ~Files[run.upload].opens
    /\ run.end = "interrupted" => run.cut <= 186

\* the session stays usable: the run after one stopped at the key check, now
\* with the key, stores an analysis
C8_Witness == run.prev /\ run.key /\ run.handler = "stored"

\* C10 as stated: whenever last_file names a file, full_text is the text
\* extracted from that upload, validation_status is its verdict and a stored
\* analysis was generated from that text.
C10_SessionConsistent ==
  last_file # None =>
    /\ full_text = ExpectedText(Files[last_upload].pages)
    /\ validation_status = Some([is_valid |-> Validated(full_text).is_valid,
                                  message |-> Validated(full_text).message])
    /\ analysis # None => analysis_source = Some(Slice(full_text, 0, PROMPT_TEXT_LIMIT))

\* the decision table of C3 over a strong-indicator count s and a keyword
\* count k, compared with the validator's result out
TableHolds(s, k, out) ==
  IF s >= 2 /\ k >= 5 THEN out.is_valid /\ out.message[1] = "valid"
  ELSE IF s >= 1 /\ k >= 3 THEN out.is_valid /\ out.message[1] = "possible"
  ELSE ~out.is_valid /\ out.message[1] = "not_a_bill"

\* the validator was applied to a text that passes the length check and matches
\* no example or Q&A pattern; text_lower is that text lower-cased
ReachesTable(text_lower) ==
  /\ fn_pc = "done" /\ fn_in.f = "validate"
  /\ ~TooShort(fn_in.text)
  /\ ~MatchesExamplePattern(text_lower)
  /\ ~MatchesQAFormat(text_lower)

\* C3 as stated: the table is read with strong = the number of
\* REAL_BILL_PATTERNS regexes that match, so that a text matching none of them
\* is rejected.
C3_TableOverPatternCount ==
  \A text_lower \in {Lower(fn_in.text)} :
    ReachesTable(text_lower) =>
      /\ TableHolds(PatternCount(text_lower), KeywordCount(text_lower), fn_out)
      /\ PatternCount(text_lower) = 0 => ~fn_out.is_valid

\* C3: for a text that passes the length check and matches no example or Q&A
\* pattern, is_valid_government_doc decides by the table (strong >= 2 and
\* keyword >= 5: valid; else strong >= 1 and keyword >= 3: possible bill; else
\* rejected) where keyword is the number of BILL_KEYWORDS the lower-cased text
\* contains and strong is the number of REAL_BILL_PATTERNS regexes that match
\* plus 2 when the text names "lok sabha" or "rajya sabha"; a text that matches
\* no pattern and names neither house is rejected.
C3_TableOverWeightedCount ==
  \A text_lower \in {Lower(fn_in.text)} :
    ReachesTable(text_lower) =>
      /\ TableHolds(PatternCount(text_lower) + (IF MentionsHouse(text_lower) THEN 2 ELSE 0),
                    KeywordCount(text_lower), fn_out)
      /\ (PatternCount(text_lower) = 0 /\ ~MentionsHouse(text_lower)) => ~fn_out.is_valid

\* a text that matches no strong-indicator pattern is accepted as valid because
\* it names a house
C3_Witness ==
  \A text_lower \in {Lower(fn_in.text)} :
    /\ ReachesTable(text_lower)
    /\ PatternCount(text_lower) = 0
    /\ MentionsHouse(text_lower)
    /\ fn_out.is_valid /\ fn_out.message[1] = "valid"

\* word, optional whitespace and a colon, the word starting at position i of s;
\* the position of the colon, or 0
HeaderColon(s, word, i) ==
  IF ~OccursAt(word, s, i) THEN 0
  ELSE LET after == {c \in (i + Len(word))..Len(s) : ~IsSpace(s[c])}
       IN IF after = {} THEN 0
          ELSE LET c == CHOOSE x \in after : \A y \in after : x <= y
               IN IF s[c] = ":" THEN c ELSE 0

\* s holds a "question: ... answer:" block, on one line or across lines
HasQABlock(s) ==
  \E i \in 1..Len(s) :
    \E c \in {HeaderColon(s, <<"q","u","e","s","t","i","o","n">>, i)} :
      /\ c # 0
      /\ \E j \in (c + 1)..Len(s) : HeaderColon(s, <<"a","n","s","w","e","r">>, j) # 0

\* C4 as stated: every document that holds a Question: ... Answer: block is
\* rejected with bill_type "example", whatever its length.
C4_QARejectedAtAnyLength ==
  (fn_pc = "done" /\ fn_in.f = "validate") =>
    \A text_lower \in {Lower(fn_in.text)} :
      HasQABlock(text_lower) => ~fn_out.is_valid /\ fn_out.bill_type = "example"

\* C4: every document of stripped length 500 or more that holds a
\* Question: ... Answer: block is rejected with bill_type "example", whatever
\* keywords and strong indicators it also holds and whether or not question
\* and answer are on one line; a shorter document is rejected with bill_type
\* "invalid" by the length check.
C4_QARejectedAsExample ==
  (fn_pc = "done" /\ fn_in.f = "validate") =>
    \A text_lower \in {Lower(fn_in.text)} :
      /\ (HasQABlock(text_lower) /\ ~TooShort(fn_in.text)) =>
           ~fn_out.is_valid /\ fn_out.bill_type = "example"
      /\ TooShort(fn_in.text) => ~fn_out.is_valid /\ fn_out.bill_type = "invalid"

\* a long enough document with question and answer on different lines only,
\* and with the keywords and strong indicators of a valid bill
C4_Witness ==
  /\ fn_pc = "done" /\ fn_in.f = "validate"
  /\ \A text_lower \in {Lower(fn_in.text)} :
       /\ HasQABlock(text_lower)
       /\ ~TooShort(fn_in.text)
       /\ ~MatchesExamplePattern(text_lower)
       /\ StrongIndicators(text_lower) >= 2
       /\ KeywordCount(text_lower) >= 5
  /\ fn_out.bill_type = "example"

\* extract_section was applied to a non-empty analysis that holds the title
Extracted ==
  /\ fn_pc = "done" /\ fn_in.f = "extract"
  /\ fn_in.analysis # <<>> /\ fn_in.analysis[1] # <<>>

\* the offset just after the first occurrence of the title in content
AfterTitle(content, title) == Find(content, title, 0) + Len(title)

\* the least offset, at or after start, at which a heading other than the title
\* starts; the length of content when there is none
NextOtherHeading(content, title, start) ==
  LET offsets == {Find(content, headings[i], start) :
                    i \in {j \in 1..Len(headings) : headings[j] # title}} \ {-1}
  IN IF offsets = {} THEN Len(content)
     ELSE CHOOSE o \in offsets : \A q \in offsets : o <= q

\* the stripped slice from the title to the next other heading
SectionSlice(content, title) ==
  Strip(Slice(content, AfterTitle(content, title),
              NextOtherHeading(content, title, AfterTitle(content, title))))

\* C5 as stated: for a non-empty analysis that holds the title, extract_section
\* returns the stripped slice from just after the first occurrence of the title
\* to the least offset, at or after that position, of any other heading (bullet
\* markers and runs of blank lines cleaned, the placeholder for an empty
\* slice); a later occurrence of the title does not end the section and a
\* heading that starts right after the title does.
C5_SliceToNextOtherHeading ==
  (Extracted /\ Contains(fn_in.analysis[1], fn_in.title)) =>
    fn_out = OrNoContent(CleanUp(SectionSlice(fn_in.analysis[1], fn_in.title)))

\* C6 as stated: extract_section returns a string for every analysis and
\* title; the result is the not-found text exactly when a non-empty analysis
\* does not hold the title; a title with empty content gives a result that is
\* neither the not-found text nor empty.
C6_NotFoundExactlyWhenAbsent ==
  (fn_pc = "done" /\ fn_in.f = "extract") =>
    /\ fn_out \in Seq(STRING)
    /\ Extracted =>
         /\ fn_out = SECTION_NOT_FOUND <=> ~Contains(fn_in.analysis[1], fn_in.title)
         /\ (Contains(fn_in.analysis[1], fn_in.title)
             /\ SectionSlice(fn_in.analysis[1], fn_in.title) = <<>>) =>
              fn_out \notin {SECTION_NOT_FOUND, <<>>}

\* C6: extract_section returns a non-empty string for every analysis and
\* title: "No analysis available." when there is no analysis; the not-found
\* text whenever a non-empty analysis does not hold the title; when the
\* analysis holds the title the result is the not-found text only if the
\* analysis itself contains that text; a title with empty content gives a
\* result that is neither the not-found text nor empty.
C6_NotFoundWhenAbsent ==
  (fn_pc = "done" /\ fn_in.f = "extract") =>
    /\ fn_out \in Seq(STRING)
    /\ fn_out # <<>>
    /\ ~Extracted => fn_out = NO_ANALYSIS
    /\ Extracted =>
         /\ ~Contains(fn_in.analysis[1], fn_in.title) => fn_out = SECTION_NOT_FOUND
         /\ (Contains(fn_in.analysis[1], fn_in.title) /\ fn_out = SECTION_NOT_FOUND) =>
              Contains(fn_in.analysis[1], SECTION_NOT_FOUND)
         /\ (Contains(fn_in.analysis[1], fn_in.title)
             /\ SectionSlice(fn_in.analysis[1], fn_in.title) = <<>>) =>
              fn_out \notin {SECTION_NOT_FOUND, <<>>}

\* the analysis holds the title and the result is the not-found text all the
\* same
C6_Witness ==
  /\ Extracted
  /\ Contains(fn_in.analysis[1], fn_in.title)
  /\ fn_out = SECTION_NOT_FOUND

\* the concatenation of a sequence of strings
RECURSIVE Flatten(_)
Flatten(strs) == IF strs = <<>> THEN <<>> ELSE Head(strs) \o Flatten(Tail(strs))

\* the strings drawn, in draw order
Drawn(pdf) == [i \in 1..Len(pdf.draws) |-> pdf.draws[i].s]

\* the draws a line of n characters takes when it is wrapped at 95 characters
DrawCount(n) == IF n = 0 THEN 1 ELSE (n + MAX_LINE_CHARS - 1) \div MAX_LINE_CHARS

RECURSIVE TotalDraws(_)
TotalDraws(lines) ==
  IF lines = <<>> THEN 0 ELSE DrawCount(Len(Head(lines))) + TotalDraws(Tail(lines))

\* C9 as stated: generate_pdf draws one string per input line, the line cut at
\* 95 characters, in the order of the lines.
C9_OneTruncatedDrawPerLine ==
  (fn_pc = "done" /\ fn_in.f = "pdf") =>
    \A lines \in {SplitLines(fn_in.text)} :
      /\ Len(fn_out.draws) = Len(lines)
      /\ \A i \in 1..Len(lines) : fn_out.draws[i].s = Slice(lines[i], 0, MAX_LINE_CHARS)

\* C9: no string generate_pdf draws is longer than 95 characters, and the
\* drawn strings read back in draw order reproduce every input line in full, in
\* the order of the lines: a line longer than 95 characters is drawn as its
\* consecutive 95-character chunks (one draw per chunk), any other line as one
\* draw.
C9_LinesWrappedInOrder ==
  (fn_pc = "done" /\ fn_in.f = "pdf") =>
    \A lines \in {SplitLines(fn_in.text)} :
      /\ \A i \in 1..Len(fn_out.draws) : Len(fn_out.draws[i].s) <= MAX_LINE_CHARS
      /\ Flatten(Drawn(fn_out)) = Flatten(lines)
      /\ Len(fn_out.draws) = TotalDraws(lines)

\* a text with a line longer than 95 characters, drawn as more strings than it
\* has lines
C9_Witness ==
  /\ fn_pc = "done" /\ fn_in.f = "pdf"
  /\ \E i \in 1..Len(SplitLines(fn_in.text)) : Len(SplitLines(fn_in.text)[i]) > MAX_LINE_CHARS
  /\ Len(fn_out.draws) > Len(SplitLines(fn_in.text))

\* C11 as stated: every drawString call of generate_pdf is at a y with
\* 50 <= y <= 800, the chunks of a wrapped long line included: a new page is
\* started before y falls below 50.
C11_DrawsInsideMargins ==
  (fn_pc = "done" /\ fn_in.f = "pdf") =>
    \A i \in 1..Len(fn_out.draws) :
      BOTTOM_Y <= fn_out.draws[i].y /\ fn_out.draws[i].y <= TOP_Y


====
